---- MODULE Spec2Model ----
(***************************************************************************)
(* Session-data aggregation, caching and error handling of the F1          *)
(* dashboard backend.                                                      *)
(*                                                                         *)
(*   Spec       the HTTP read handlers (routes/f1.ts, its older copy and   *)
(*              the F1Service aggregation) applied to a bounded store      *)
(*   SpecCache  concurrent F1Service calls in front of the Redis cache     *)
(*   SpecHub    the socket.io rooms of server.ts and LiveTiming clients    *)
(*   SpecStints the stints RaceStrategy derives from a driver's laps       *)
(*   SpecFix    the database fix script run on a store with content        *)
(*   SpecChat   POST /f1-expert and ChatService.processF1Question          *)
(*   SpecHook   the useF1Data hook with overlapping loadSession calls      *)
(*   SpecLong   the read handlers over a session of more than 100 laps     *)
(*   SpecKeys   the service routes called with differing path parameters   *)
(*                                                                         *)
(* Times are in milliseconds, Math.random() draws are in thousandths.      *)
(***************************************************************************)
EXTENDS Integers, Sequences, FiniteSets, TLC

VARIABLES
    f1_sessions,     \* rows of table f1_sessions
    lap_times,       \* rows of table lap_times (all of session id 1)
    telemetry_data,  \* driver numbers that have a telemetry_data row
    request,         \* the request parameters the handlers are applied to
    resp,            \* the response of the last handler that ran
    clock,           \* seconds since start
    cache,           \* Redis: key -> <<>> or <<[val, expiry]>>
    calls,           \* the F1Service calls in flight
    connected,       \* socket.io: the sockets with an open connection
    closed,          \* socket.io: the sockets that have disconnected
    rooms,           \* socket.io: room (session id) -> its member sockets
    toServer,        \* per socket, the join_session messages in flight
    toClient,        \* per socket, the events emitted to it and not yet handled
    component,       \* per client, the mounted LiveTiming component
    received,        \* per client, the events its listeners were called with
    delivered,       \* per socket, every event the hub emitted to it
    joined,          \* per socket, the rooms whose join_session was handled
    published,       \* the publishes so far, oldest first
    driverLaps,      \* RaceStrategy: the laps of one driver of sessionData
    strategyData,    \* RaceStrategy: the stints derived for that driver
    constraints,     \* the table constraints of lap_times
    fixPc,           \* the statement the fix script is at
    chat,            \* the POST /f1-expert request in progress
    hook             \* useF1Data: its state and its requests in flight

storeVars == <<f1_sessions, lap_times, telemetry_data, request>>
cacheVars == <<clock, cache, calls>>
hubVars ==
    <<connected, closed, rooms, toServer, toClient, component, received, delivered, joined,
      published>>
stintVars == <<driverLaps, strategyData>>
fixVars == <<constraints, fixPc>>
vars ==
    <<f1_sessions, lap_times, telemetry_data, request, resp, clock, cache, calls,
      hubVars, stintVars, fixVars, chat, hook>>

----------------------------------------------------------------------------
(* Bounds *)

MaxRows == 2         \* lap_times and telemetry_data rows of an enumerated store

----------------------------------------------------------------------------
(* Nullable columns: <<>> is NULL / null / undefined, <<x>> is the value x *)

Null == <<>>
Some(x) == <<x>>

Min(S) == CHOOSE x \in S : \A y \in S : x <= y

\* every enumeration of the finite set S as a sequence
Perms(S) ==
    {s \in [1..Cardinality(S) -> S] : \A i, j \in 1..Cardinality(S) : s[i] = s[j] => i = j}

\* SQL ORDER BY: every enumeration of S that respects the sort order leq (the
\* pairs <<x, y>> where x may come before y); rows that tie come in whatever
\* order the executor produces
OrderBy(S, leq) ==
    IF \A x \in S : \A y \in S : (<<x, y>> \in leq /\ <<y, x>> \in leq) => x = y
    THEN \* no two rows tie: the one enumeration in which each row follows the
         \* rows that sort before it
         LET rank == [x \in S |-> Cardinality({y \in S : <<y, x>> \in leq})]
         IN  {[i \in 1..Cardinality(S) |-> CHOOSE x \in S : rank[x] = i]}
    ELSE {s \in Perms(S) : \A i \in 1..(Len(s) - 1) : <<s[i], s[i + 1]>> \in leq}

----------------------------------------------------------------------------
(* The relational store *)

\* table drivers, in insertion order; as VARCHAR "1" < "44"
Drivers == <<"1", "44">>
DriverSet == {Drivers[i] : i \in 1..Len(Drivers)}
DriverRank(d) == CHOOSE i \in 1..Len(Drivers) : Drivers[i] = d

\* two lap numbers: enough for a competitor's laps to differ or to collide
LapNumbers == {1, 2}
LapTimeValues == {0, 90500}

LapRows ==
    [driver_number : DriverSet, lap_number : LapNumbers,
     lap_time : {Null} \cup {Some(t) : t \in LapTimeValues}]

Lap(d, n, t) == [driver_number |-> d, lap_number |-> n, lap_time |-> Some(t)]

\* session(2024, 1, "Race"): #1 with laps 91.2, 90.5 and #44 with laps 91.4, 90.7
ScenarioLaps ==
    {Lap("1", 1, 91200), Lap("1", 2, 90500), Lap("44", 1, 91400), Lap("44", 2, 90700)}

\* a TIMESTAMP column as the driver hands it over (a Date object), and the
\* ISO string Date.prototype.toJSON turns it into
JsDate(iso) == [type |-> "Date", iso |-> iso]
JsString(iso) == [type |-> "string", iso |-> iso]

SessionRow(w, c, d) ==
    [id |-> 1, year |-> 2024, round_number |-> 1, session_type |-> "Race",
     event_name |-> "Bahrain Grand Prix", location |-> "Sakhir",
     session_date |-> d, weather_data |-> w, circuit_info |-> c]

\* UNIQUE(year, round_number, session_type): at most one row for the key
SessionTables ==
    {{}, {SessionRow(Null, Null, Null)},
     {SessionRow(Some("rain"), Some("sakhir"), Some(JsDate("2024-03-02T15:00:00.000Z")))}}

LapTables ==
    {s \in SUBSET LapRows : Cardinality(s) <= MaxRows} \cup {ScenarioLaps}

----------------------------------------------------------------------------
(* SQL pieces shared by the handlers *)

LapsOf(d) == {r \in lap_times : r.driver_number = d}

\* MIN(lt.lap_time): NULLs are ignored, NULL when nothing is left
SqlMin(rows) ==
    LET ts == {r.lap_time[1] : r \in {q \in rows : q.lap_time # Null}}
    IN  IF ts = {} THEN Null ELSE Some(Min(ts))

\* ORDER BY fastest_lap ASC NULLS LAST
NullsLastLeq(a, b) == b = Null \/ (a # Null /\ a[1] <= b[1])
ByFastestLap(x, y) == NullsLastLeq(x.fastest_lap, y.fastest_lap)

\* FROM lap_times lt ... WHERE lt.session_id = $1 GROUP BY d.driver_number, ...
DriversQueryRows ==
    {[driver_number |-> d,
      total_laps |-> Cardinality(LapsOf(d)),
      fastest_lap |-> SqlMin(LapsOf(d))] : d \in {r.driver_number : r \in lap_times}}

DriversQuery ==
    OrderBy(DriversQueryRows, {<<x, y>> \in DriversQueryRows \X DriversQueryRows : ByFastestLap(x, y)})

\* WHERE year = $1 AND round_number = $2 AND session_type = $3
SessionQuery(year, round, sessionType) ==
    {s \in f1_sessions :
        s.year = year /\ s.round_number = round /\ s.session_type = sessionType}

----------------------------------------------------------------------------
(* Math.random(): a draw from [0, 1), in thousandths *)

RandomDraws == {0, 999}

\* `+${(Math.random() * k).toFixed(3)}`
GapText(u, k) == [text |-> "+", ms |-> u * k]
LEADER == [text |-> "LEADER", ms |-> 0]

\* Math.floor(Math.random() * 20) + 1
TyreLife(u) == ((u * 20) \div 1000) + 1

----------------------------------------------------------------------------
(* Requests and responses *)

\* parseInt(req.params.x): Null is NaN
Request(year, round, session) == [year |-> year, round |-> round, session |-> session]

Requests ==
    {Request(Null, Some(1), "Race"),
     Request(Some(2024), Null, "Race"),
     Request(Some(2024), Some(1), "Race"),
     Request(Some(2024), Some(1), "Qualifying"),
     Request(Some(2099), Some(1), "Race")}

\* A response: what the handler sent or returned, with the number of store
\* queries it issued and, in failAt, which of them failed (0: none)
NoResponse ==
    [route |-> "none", req |-> Null, status |-> 0, queries |-> 0, failAt |-> 0,
     success |-> FALSE, error |-> "", data |-> Null]

\* res.status(status).json({success: false, error})
ErrorResponse(route, req, status, error, queries) ==
    [route |-> route, req |-> Some(req), status |-> status, queries |-> queries, failAt |-> 0,
     success |-> FALSE, error |-> error, data |-> Null]

\* res.json({success: true, data})
OkResponse(route, req, data, queries) ==
    [route |-> route, req |-> Some(req), status |-> 200, queries |-> queries, failAt |-> 0,
     success |-> TRUE, error |-> "", data |-> Some(data)]

\* a catch block that swallows the store error and answers with empty data
HideStoreError(route, req, error, queries) == OkResponse(route, req, <<>>, queries)

\* the catch block of a route: the store error becomes a 500
OnStoreError(route, req, error, queries) == ErrorResponse(route, req, 500, error, queries)

\* the responses R of a handler run in which store query number failAt was
\* to fail: the failure is on record when the handler got that far
Answered(R, failAt) ==
    {[r EXCEPT !.failAt = IF failAt <= r.queries THEN failAt ELSE 0] : r \in R}

----------------------------------------------------------------------------
(* routes/f1.ts  GET /session/:year/:round/:session *)

LapLimit == 100

Limit(s, n) == SubSeq(s, 1, IF Len(s) < n THEN Len(s) ELSE n)

\* ORDER BY driver_number, lap_number
ByDriverLap(x, y) ==
    \/ DriverRank(x.driver_number) < DriverRank(y.driver_number)
    \/ x.driver_number = y.driver_number /\ x.lap_number <= y.lap_number

LapTimesQuery ==
    {Limit(s, LapLimit) :
        s \in OrderBy(lap_times, {<<x, y>> \in lap_times \X lap_times : ByDriverLap(x, y)})}

\* a session that holds one lap row more than the lap query returns: driver #1
\* with laps of 91.2 and a last lap of 90.5
LongSessionLaps ==
    {Lap("1", n, IF n = LapLimit + 1 THEN 90500 ELSE 91200) : n \in 1..(LapLimit + 1)}

LapJson(r) == [lap_number |-> r.lap_number, lap_time |-> r.lap_time]

\* the laps.push calls for driver d, in the order of the result rows
LapsPushed(rows, d) ==
    LET OfDriver(r) == r.driver_number = d
        pushed == SelectSeq(rows, OfDriver)
    IN  [i \in 1..Len(pushed) |-> LapJson(pushed[i])]

RowOf(result, d) == result[CHOOSE i \in 1..Len(result) : result[i].driver_number = d]

\* driversData after the two forEach loops
DriversData(driversResult, lapTimesResult) ==
    [d \in {driversResult[i].driver_number : i \in 1..Len(driversResult)} |->
        [driver_number |-> d,
         laps |-> LapsPushed(lapTimesResult, d),
         fastest_lap |-> RowOf(driversResult, d).fastest_lap]]

\* the Math.random() draws of a timing array of n entries; the entry at
\* index 0 draws no gap
RandomPairs(n) ==
    {r \in [1..n -> [gap : RandomDraws, tyre : RandomDraws]] : n >= 1 => r[1].gap = 0}

\* gap of the timing entry at 1-based place i, drawn from Math.random() * k
TimingGap(i, u, k) == IF i = 1 THEN LEADER ELSE GapText(u, k)

TimingData(driversResult, rnd) ==
    [i \in 1..Len(driversResult) |->
        [driver |-> driversResult[i].driver_number,
         position |-> i,
         gap |-> TimingGap(i, rnd[i].gap, 30),
         lap_time |-> driversResult[i].fastest_lap,
         compound |-> "MEDIUM",
         tyre_life |-> Some(TyreLife(rnd[i].tyre))]]

DefaultWeather == Some("air_temp 28")
EmptyObject == Some("{}")
EmptyArray == Some("[]")

\* x || fallback, for a JSONB column (an object or array when present)
OrElse(x, fallback) == IF x = Null THEN fallback ELSE x

SessionInfo(session) ==
    [name |-> session.session_type, date |-> session.session_date,
     event_name |-> session.event_name,
     location |-> session.location, session_type |-> session.session_type]

SessionData(session, driversData, timingData) ==
    [variant |-> "f1.ts",
     session_info |-> SessionInfo(session),
     drivers |-> driversData,
     timing |-> timingData,
     weather |-> OrElse(session.weather_data, DefaultWeather),
     circuit_info |-> OrElse(session.circuit_info, EmptyObject)]

\* every response the handler can give to req when its failAt-th store query
\* fails (0: none fails)
RouteSessionResponses(req, failAt) ==
    IF req.year = Null \/ req.round = Null
    THEN {ErrorResponse("session", req, 400, "Invalid year or round parameter", 0)}
    ELSE IF failAt = 1
    THEN {OnStoreError("session", req, "Failed to fetch session data", 1)}
    ELSE LET found == SessionQuery(req.year[1], req.round[1], req.session) IN
    IF found = {}
    THEN IF failAt = 2
         THEN {OnStoreError("session", req, "Failed to fetch session data", 2)}
         ELSE {ErrorResponse("session", req, 404, "Session not found", 2)}
    ELSE IF failAt \in {2, 3}
    THEN {OnStoreError("session", req, "Failed to fetch session data", failAt)}
    ELSE LET session == CHOOSE s \in found : TRUE IN
         {OkResponse("session", req,
                     SessionData(session, DriversData(dr, lt), TimingData(dr, rnd)),
                     3) :
            <<dr, lt, rnd>> \in
               {<<a, b, c>> \in DriversQuery \X LapTimesQuery \X RandomPairs(Cardinality(DriversQueryRows)) :
                    TRUE}}

RouteSession ==
    /\ \E failAt \in 0..3 : resp' \in Answered(RouteSessionResponses(request, failAt), failAt)
    /\ UNCHANGED <<chat, hook, storeVars, cacheVars, hubVars, stintVars, fixVars>>

----------------------------------------------------------------------------
(* The older copy of the route file:  GET /session/:year/:round/:session *)

\* driver.fastest_lap || 90 + Math.random() * 5   (pg hands a DECIMAL over as
\* a string, so only NULL is falsy here)
LapTimeOr(fastest_lap, u) == IF fastest_lap = Null THEN Some(90000 + u * 5) ELSE fastest_lap

\* the draws of the older timing array: a lap time only where fastest_lap is NULL
RandomTriples(driversResult) ==
    {r \in [1..Len(driversResult) -> [gap : RandomDraws, lap : RandomDraws, tyre : RandomDraws]] :
        \A i \in 1..Len(driversResult) :
            /\ i = 1 => r[i].gap = 0
            /\ driversResult[i].fastest_lap # Null => r[i].lap = 0}

OldTimingData(driversResult, rnd) ==
    [i \in 1..Len(driversResult) |->
        [driver |-> driversResult[i].driver_number,
         position |-> i,
         gap |-> TimingGap(i, rnd[i].gap, 2),
         lap_time |-> LapTimeOr(driversResult[i].fastest_lap, rnd[i].lap),
         compound |-> "MEDIUM",
         tyre_life |-> Some(TyreLife(rnd[i].tyre))]]

\* drivers: driversResult.rows, read here by driver number
OldDrivers(driversResult) ==
    [d \in {driversResult[i].driver_number : i \in 1..Len(driversResult)} |->
        [driver_number |-> d, laps |-> <<>>,
         fastest_lap |-> RowOf(driversResult, d).fastest_lap]]

OldSessionData(session, driversResult, rnd) ==
    [variant |-> "old f1.ts",
     session_info |-> SessionInfo(session),
     drivers |-> OldDrivers(driversResult),
     timing |-> OldTimingData(driversResult, rnd),
     weather |-> EmptyArray,
     circuit_info |-> session.circuit_info]

OldRouteSessionResponses(req, failAt) ==
    IF req.year = Null \/ req.round = Null
    THEN {ErrorResponse("old session", req, 400, "Invalid year or round parameter", 0)}
    ELSE IF failAt = 1
    THEN {OnStoreError("old session", req, "Failed to fetch session data", 1)}
    ELSE LET found == SessionQuery(req.year[1], req.round[1], req.session) IN
    IF found = {}
    THEN {ErrorResponse("old session", req, 404, "Session not found", 1)}
    ELSE IF failAt = 2
    THEN {OnStoreError("old session", req, "Failed to fetch session data", 2)}
    ELSE LET session == CHOOSE s \in found : TRUE IN
         UNION {{OkResponse("old session", req, OldSessionData(session, dr, rnd), 2) :
                    rnd \in RandomTriples(dr)} : dr \in DriversQuery}

OldRouteSession ==
    /\ \E failAt \in 0..2 : resp' \in Answered(OldRouteSessionResponses(request, failAt), failAt)
    /\ UNCHANGED <<chat, hook, storeVars, cacheVars, hubVars, stintVars, fixVars>>

----------------------------------------------------------------------------
(* F1Service (with Redis): what getSessionData builds on a cache miss *)

TimingLimit == 20

\* JavaScript truthiness of a JSON number or null
Truthy(v) == v # Null /\ v[1] # 0

ByLapNumber(x, y) == x.lap_number <= y.lap_number
ByLapNumberDesc(x, y) == x.lap_number >= y.lap_number

MapLapJson(rows) == [i \in 1..Len(rows) |-> LapJson(rows[i])]

\* JSON_AGG(... ORDER BY lt.lap_number) for every driver that has a lap row
LapsAgg(d) ==
    {MapLapJson(s) :
        s \in OrderBy(LapsOf(d), {<<x, y>> \in LapsOf(d) \X LapsOf(d) : ByLapNumber(x, y)})}

\* .reduce((fastest, current) =>
\*     !fastest || current.lap_time < fastest.lap_time ? current : fastest, null)
\* the strict comparison replaces the accumulator only by a smaller time, so
\* the fold ends on the first lap of the smallest time, or on the initial
\* value when that is already as small
ReduceFastest(laps, fastest) ==
    IF laps = <<>> THEN fastest
    ELSE LET first == CHOOSE i \in 1..Len(laps) :
                          /\ \A j \in 1..Len(laps) : laps[i].lap_time[1] <= laps[j].lap_time[1]
                          /\ \A j \in 1..(i - 1) : laps[j].lap_time[1] > laps[i].lap_time[1]
         IN  IF fastest = Null \/ laps[first].lap_time[1] < fastest[1].lap_time[1]
             THEN Some(laps[first]) ELSE fastest

TruthyLapTime(lap) == Truthy(lap.lap_time)

\* laps.filter(lap => lap.lap_time).reduce(...), then fastestLap?.lap_time || null
FastestLapOf(laps) ==
    LET fastestLap == ReduceFastest(SelectSeq(laps, TruthyLapTime), Null)
    IN  IF fastestLap = Null THEN Null
        ELSE IF Truthy(fastestLap[1].lap_time) THEN fastestLap[1].lap_time ELSE Null

\* getDriversData: every outcome of the query's tie order
GetDriversData ==
    LET ds == {r.driver_number : r \in lap_times}
        choices == {f \in [ds -> UNION {LapsAgg(d) : d \in ds}] : \A d \in ds : f[d] \in LapsAgg(d)}
    IN  {[d \in ds |-> [driver_number |-> d, laps |-> f[d], fastest_lap |-> FastestLapOf(f[d])]] :
            f \in choices}

TimingRow(r) ==
    [driver |-> r.driver_number, position |-> Null, lap_time |-> r.lap_time,
     compound |-> Null, tyre_life |-> Null]

MapTimingRow(rows) == [i \in 1..Len(rows) |-> TimingRow(rows[i])]

\* getTimingData: ORDER BY lap_number DESC, position ASC LIMIT 20 (position is
\* NULL in every row of the bounded store)
GetTimingData ==
    {Limit(MapTimingRow(s), TimingLimit) :
        s \in OrderBy(lap_times, {<<x, y>> \in lap_times \X lap_times : ByLapNumberDesc(x, y)})}

\* getTelemetryData(sessionId) of the service
GetTelemetryMap == [d \in telemetry_data |-> "telemetry arrays"]

ServiceSessionData(session, driversData, timingData) ==
    [variant |-> "F1Service",
     session_info |-> SessionInfo(session),
     drivers |-> driversData,
     timing |-> timingData,
     weather |-> OrElse(session.weather_data, EmptyArray),
     circuit_info |-> OrElse(session.circuit_info, EmptyObject)]

\* the values getSessionData can build for (year, round, sessionType) when no
\* query fails: Null when the session row is missing
ProduceSessionData(year, round, sessionType) ==
    LET found == SessionQuery(year, round, sessionType) IN
    IF found = {} THEN {Null}
    ELSE LET session == CHOOSE s \in found : TRUE IN
         {Some(ServiceSessionData(session, dd, td)) : <<dd, td>> \in GetDriversData \X GetTimingData}

\* the catch block of a service method: console.error, then throw
ServiceThrow(route, req, error, queries) == ErrorResponse(route, req, 0, error, queries)

\* a service method returning value (Null: null)
ServiceReturn(route, req, value, queries) ==
    [route |-> route, req |-> Some(req), status |-> 0, queries |-> queries, failAt |-> 0,
     success |-> TRUE, error |-> "", data |-> value]

\* failAt 1: the session query fails; 2: one of the six queries after it
ServiceSessionResponses(req, failAt) ==
    IF failAt = 1
    THEN {ServiceThrow("service.session", req, "Failed to fetch session data", 1)}
    ELSE LET found == SessionQuery(req.year[1], req.round[1], req.session) IN
    IF found # {} /\ failAt > 1
    THEN {ServiceThrow("service.session", req, "Failed to fetch session data", 2)}
    ELSE {ServiceReturn("service.session", req, v, IF found = {} THEN 1 ELSE 7) :
            v \in ProduceSessionData(req.year[1], req.round[1], req.session)}

\* getSessionData past its cache lookup (the producer of the session entry)
ServiceSession ==
    /\ request.year # Null /\ request.round # Null
    /\ \E failAt \in 0..2 : resp' \in Answered(ServiceSessionResponses(request, failAt), failAt)
    /\ UNCHANGED <<chat, hook, storeVars, cacheVars, hubVars, stintVars, fixVars>>

\* the route in front of a service method:
\*   try { res.json({success: true, data: await f1Service.method(...)}) }
\*   catch (error) { res.status(500).json({success: false, error: error.message}) }
\* r is what the method returned or threw
ServiceRouteAnswer(route, r) ==
    IF r.success
    THEN [r EXCEPT !.route = route, !.status = 200]
    ELSE [r EXCEPT !.route = route, !.status = 500]

\* GET /session/:year/:round/:session in front of F1Service.getSessionData:
\* req.params go to the service unparsed, and a non-numeric year or round
\* makes the session query fail in the store
ServiceRouteSessionResponses(req, failAt) ==
    IF req.year = Null \/ req.round = Null
    THEN {ServiceRouteAnswer("service route session",
             ServiceThrow("service.session", req, "Failed to fetch session data", 1))}
    ELSE {ServiceRouteAnswer("service route session", r) : r \in ServiceSessionResponses(req, failAt)}

ServiceRouteSession ==
    /\ \E failAt \in 0..2 :
          resp' \in Answered(ServiceRouteSessionResponses(request, failAt), failAt)
    /\ UNCHANGED <<chat, hook, storeVars, cacheVars, hubVars, stintVars, fixVars>>

----------------------------------------------------------------------------
(* Schedule handlers *)

ByRound(x, y) == x.round <= y.round

\* SELECT round_number as round, event_name, location, session_date as event_date
\* FROM f1_sessions
\* WHERE year = $1 AND session_type = 'Race' ORDER BY round_number
ScheduleQuery(year) ==
    LET rows == {[round |-> r.round_number, event_name |-> r.event_name,
                  location |-> r.location, event_date |-> r.session_date] :
                    r \in {q \in f1_sessions : q.year = year /\ q.session_type = "Race"}}
    IN  OrderBy(rows, {<<x, y>> \in rows \X rows : ByRound(x, y)})

\* routes/f1.ts GET /schedule/:year
RouteScheduleResponses(req, failAt) ==
    IF req.year = Null
    THEN {ErrorResponse("schedule", req, 400, "Invalid year parameter", 0)}
    ELSE IF failAt = 1
    THEN {OnStoreError("schedule", req, "Failed to fetch schedule", 1)}
    ELSE {OkResponse("schedule", req, rows, 1) : rows \in ScheduleQuery(req.year[1])}

RouteSchedule ==
    /\ \E failAt \in 0..1 : resp' \in Answered(RouteScheduleResponses(request, failAt), failAt)
    /\ UNCHANGED <<chat, hook, storeVars, cacheVars, hubVars, stintVars, fixVars>>

\* SELECT ... FROM f1_sessions WHERE year = $1 GROUP BY round_number, ...
OldScheduleQuery(year) ==
    LET rows == {[round |-> r.round_number, event_name |-> r.event_name,
                  location |-> r.location, event_date |-> r.session_date] :
                    r \in {q \in f1_sessions : q.year = year}}
    IN  OrderBy(rows, {<<x, y>> \in rows \X rows : ByRound(x, y)})

\* the older copy's GET /schedule/:year: zero rows give data: [] and a message
OldRouteScheduleResponses(req, failAt) ==
    IF req.year = Null
    THEN {ErrorResponse("old schedule", req, 400, "Invalid year parameter", 0)}
    ELSE IF failAt = 1
    THEN {OnStoreError("old schedule", req, "Failed to fetch schedule", 1)}
    ELSE {IF rows = <<>>
          THEN OkResponse("old schedule", req, <<>>, 1)
          ELSE OkResponse("old schedule", req, rows, 1) : rows \in OldScheduleQuery(req.year[1])}

OldRouteSchedule ==
    /\ \E failAt \in 0..1 : resp' \in Answered(OldRouteScheduleResponses(request, failAt), failAt)
    /\ UNCHANGED <<chat, hook, storeVars, cacheVars, hubVars, stintVars, fixVars>>

\* what getSeasonSchedule (F1Service with Redis) builds on a cache miss
ProduceSchedule(year) == {Some(rows) : rows \in ScheduleQuery(year)}

ServiceScheduleResponses(req, failAt) ==
    IF failAt = 1
    THEN {ServiceThrow("service.schedule", req, "Failed to fetch season schedule", 1)}
    ELSE {ServiceReturn("service.schedule", req, v, 1) : v \in ProduceSchedule(req.year[1])}

\* getSeasonSchedule past its cache lookup (the producer of the schedule entry)
ServiceSchedule ==
    /\ request.year # Null
    /\ \E failAt \in 0..1 : resp' \in Answered(ServiceScheduleResponses(request, failAt), failAt)
    /\ UNCHANGED <<chat, hook, storeVars, cacheVars, hubVars, stintVars, fixVars>>

\* GET /schedule/:year? in front of F1Service.getSeasonSchedule
ServiceRouteScheduleResponses(req, failAt) ==
    IF req.year = Null
    THEN {ServiceRouteAnswer("service route schedule",
             ServiceThrow("service.schedule", req, "Failed to fetch season schedule", 1))}
    ELSE {ServiceRouteAnswer("service route schedule", r) : r \in ServiceScheduleResponses(req, failAt)}

ServiceRouteSchedule ==
    /\ \E failAt \in 0..1 :
          resp' \in Answered(ServiceRouteScheduleResponses(request, failAt), failAt)
    /\ UNCHANGED <<chat, hook, storeVars, cacheVars, hubVars, stintVars, fixVars>>

----------------------------------------------------------------------------
(* Telemetry handlers *)

\* gear: Math.floor(Math.random() * 7) + 1 (one sample stands for the arrays)
MockTelemetry(driver, u) == [driver |-> driver, mock |-> TRUE, gear |-> ((u * 7) \div 1000) + 1]

\* telemetryResult.rows[0].data
StoredTelemetry(driver) == [driver |-> driver, mock |-> FALSE, gear |-> 0]

\* services/F1Service.ts getTelemetryData(year, round, sessionType, driver)
GetTelemetryDataResponses(req, driver, failAt, u) ==
    IF failAt = 1
    THEN {ServiceThrow("service.telemetry", req, "store error", 1)}
    ELSE IF SessionQuery(req.year[1], req.round[1], req.session) = {}
    THEN {ServiceReturn("service.telemetry", req, Null, 1)}
    ELSE IF failAt = 2
    THEN {ServiceThrow("service.telemetry", req, "store error", 2)}
    ELSE IF driver \in telemetry_data
    THEN {ServiceReturn("service.telemetry", req, Some(StoredTelemetry(driver)), 2)}
    ELSE {ServiceReturn("service.telemetry", req, Some(MockTelemetry(driver, u)), 2)}

GetTelemetryData ==
    /\ request.year # Null /\ request.round # Null
    /\ \E driver \in DriverSet, failAt \in 0..2, u \in RandomDraws :
          resp' \in Answered(GetTelemetryDataResponses(request, driver, failAt, u), failAt)
    /\ UNCHANGED <<chat, hook, storeVars, cacheVars, hubVars, stintVars, fixVars>>

\* routes/f1.ts GET /telemetry/:year/:round/:session/:driver: sample arrays,
\* no store query
RouteTelemetry ==
    /\ \E driver \in DriverSet, u \in RandomDraws :
          resp' = OkResponse("telemetry", request, MockTelemetry(driver, u), 0)
    /\ UNCHANGED <<chat, hook, storeVars, cacheVars, hubVars, stintVars, fixVars>>

----------------------------------------------------------------------------

Init ==
    /\ f1_sessions \in SessionTables
    /\ lap_times \in LapTables
    /\ f1_sessions = {} => lap_times = {}
    /\ telemetry_data \in SUBSET DriverSet
    /\ f1_sessions = {} => telemetry_data = {}
    /\ lap_times # ScenarioLaps
          => Cardinality(lap_times) + Cardinality(telemetry_data) <= MaxRows
    /\ request \in Requests
    /\ resp = NoResponse
    /\ clock = 0
    /\ cache = <<>>
    /\ calls = <<>>
    /\ connected = {}
    /\ closed = {}
    /\ rooms = <<>>
    /\ toServer = <<>>
    /\ toClient = <<>>
    /\ component = <<>>
    /\ received = <<>>
    /\ delivered = <<>>
    /\ joined = <<>>
    /\ published = <<>>
    /\ driverLaps = <<>>
    /\ strategyData = <<>>
    /\ constraints = {}
    /\ fixPc = "off"
    /\ chat = <<>>
    /\ hook = <<>>

Next ==
    \/ RouteSession
    \/ OldRouteSession
    \/ ServiceSession
    \/ ServiceRouteSession
    \/ ServiceRouteSchedule
    \/ RouteSchedule
    \/ OldRouteSchedule
    \/ ServiceSchedule
    \/ GetTelemetryData
    \/ RouteTelemetry

Spec == Init /\ [][Next]_vars

\* The same handlers over the store of a long session
InitLong ==
    /\ f1_sessions \in SessionTables \ {{}}
    /\ lap_times = LongSessionLaps
    /\ telemetry_data = {}
    /\ request \in Requests
    /\ resp = NoResponse
    /\ clock = 0
    /\ cache = <<>>
    /\ calls = <<>>
    /\ connected = {}
    /\ closed = {}
    /\ rooms = <<>>
    /\ toServer = <<>>
    /\ toClient = <<>>
    /\ component = <<>>
    /\ received = <<>>
    /\ delivered = <<>>
    /\ joined = <<>>
    /\ published = <<>>
    /\ driverLaps = <<>>
    /\ strategyData = <<>>
    /\ constraints = {}
    /\ fixPc = "off"
    /\ chat = <<>>
    /\ hook = <<>>

SpecLong == InitLong /\ [][Next]_vars

----------------------------------------------------------------------------
(* F1Service (with Redis): concurrent calls of getSeasonSchedule and         *)
(* getSessionData.  Every await is a step of its own; all calls of a run     *)
(* carry the parameters of request.                                          *)

MaxCalls == 2        \* calls made in a run

ScheduleTtl == 3600  \* redis.setex(cacheKey, 3600, ...)
SessionTtl == 1800   \* redis.setex(cacheKey, 1800, ...)
LiveTtl == 5         \* redis.setex(cacheKey, 5, ...)

\* the instants the clock visits: the second before the end of the live and
\* of the session TTL window of an entry written at 0, and the end of each window
Instants == {0, 4, 5, 1799, 1800, 3600}

CallIds == 1..MaxCalls
Ops == {"schedule", "session", "live"}

\* `schedule:${year}`, `session:${year}:${round}:${sessionType}` and
\* `live:${sessionKey}`: the texts of the parameters joined by colons
ScheduleKey(year) == "schedule:" \o year
SessionKey(year, round, sessionType) ==
    "session:" \o year \o ":" \o round \o ":" \o sessionType
LiveKey(sessionKey) == "live:" \o sessionKey

\* the sessionKey the getLiveData calls of a run ask for
LiveSessionKey == "2024_1_Race"

\* ${n} of a number n is its decimal text
KeyOf(op) ==
    IF op = "schedule" THEN ScheduleKey(ToString(request.year[1]))
    ELSE IF op = "session"
    THEN SessionKey(ToString(request.year[1]), ToString(request.round[1]), request.session)
    ELSE LiveKey(LiveSessionKey)

CacheKeys == {KeyOf(op) : op \in Ops}

\* one time to live for every resource
TtlOneHour(op) == ScheduleTtl

Ttl(op) ==
    IF op = "schedule" THEN ScheduleTtl ELSE IF op = "session" THEN SessionTtl ELSE LiveTtl

\* getLiveData: the snapshot built on a miss; timestamp is new Date().toISOString()
LiveData(sessionKey) ==
    [session_key |-> sessionKey, timestamp |-> clock, drivers |-> <<>>,
     track_status |-> "Green", session_status |-> "Active"]

\* Date.prototype.toJSON, and its use on a nullable column
ToJSON(d) == JsString(d.iso)
JsonOpt(x) == IF x = Null THEN Null ELSE Some(ToJSON(x[1]))

RECURSIVE ScheduleJson(_)
ScheduleJson(rows) ==
    IF rows = <<>> THEN <<>>
    ELSE <<[Head(rows) EXCEPT !.event_date = JsonOpt(@)]>> \o ScheduleJson(Tail(rows))

\* JSON.stringify(value): the text is kept as the JSON value it denotes, in
\* which a Date has become its ISO string
Stringify(op, value) ==
    [json |-> IF op = "schedule" THEN ScheduleJson(value)
              ELSE IF op = "session" THEN [value EXCEPT !.session_info.date = JsonOpt(@)]
              ELSE value]

\* JSON.parse(text)
Parse(text) == text.json

\* a lookup that never finds the entry (it asks for a key setex never wrote)
RedisGetMiss(key) == Null

\* redis.get(key): null once the entry's time to live has run out
RedisGet(key) ==
    IF cache[key] # Null /\ clock < cache[key][1].expiry
    THEN Some(cache[key][1].val) ELSE Null

\* redis.setex(key, ttl, val); setAt and produced are history: when the entry
\* was written and the value it was serialized from
RedisSetex(key, ttl, val, produced) ==
    [cache EXCEPT ![key] =
        Some([val |-> val, expiry |-> clock + ttl, setAt |-> clock, produced |-> produced])]

\* a call, made once in a run: where it stands (pc), the entry its redis.get fell into the TTL
\* window of (window, history), what it has built and what it gave back;
\* seen, lookedAt and fromCache are history too: the entry the key held when
\* redis.get ran, the time of that lookup (when there was an entry), and whether
\* the call was answered from it
IdleCall ==
    [op |-> "none", pc |-> "idle", window |-> Null, session |-> Null, value |-> Null,
     returned |-> Null, error |-> "", queries |-> 0,
     seen |-> Null, lookedAt |-> 0, fromCache |-> FALSE]

\* key holds an entry written less than its time to live ago
InTtlWindow(op) ==
    cache[KeyOf(op)] # Null /\ clock < cache[KeyOf(op)][1].setAt + Ttl(op)

\* const cached = await this.redis.get(cacheKey); if (cached) return JSON.parse(cached)
CacheLookup(c) ==
    /\ calls[c].pc = "idle"
    /\ \E op \in Ops :
          LET cached == RedisGet(KeyOf(op))
              window == IF InTtlWindow(op) THEN cache[KeyOf(op)] ELSE Null
              looked == [calls[c] EXCEPT !.op = op, !.window = window,
                                         !.seen = cache[KeyOf(op)],
                                         !.lookedAt = IF cache[KeyOf(op)] = Null THEN 0 ELSE clock]
          IN  calls' = [calls EXCEPT ![c] =
                   IF cached # Null
                   THEN [looked EXCEPT !.pc = "done", !.fromCache = TRUE,
                                       !.returned = Some(Some(Parse(cached[1])))]
                   ELSE IF op = "live"
                   THEN [looked EXCEPT !.pc = "setex", !.value = Some(LiveData(LiveSessionKey))]
                   ELSE [looked EXCEPT !.pc = "query"]]
    /\ UNCHANGED <<chat, hook, hubVars, stintVars, fixVars, storeVars, resp, clock, cache>>

\* getSeasonSchedule: const result = await this.db.query(query, [year])
ScheduleDbQuery(c) ==
    /\ calls[c].pc = "query" /\ calls[c].op = "schedule"
    /\ \E v \in ProduceSchedule(request.year[1]) :
          calls' = [calls EXCEPT ![c] = [@ EXCEPT !.pc = "setex", !.value = v, !.queries = 1]]
    /\ UNCHANGED <<chat, hook, hubVars, stintVars, fixVars, storeVars, resp, clock, cache>>

\* getSessionData: the session query; return null when it finds no row
SessionDbQuery(c) ==
    /\ calls[c].pc = "query" /\ calls[c].op = "session"
    /\ LET found == SessionQuery(request.year[1], request.round[1], request.session)
       IN  calls' = [calls EXCEPT ![c] =
                IF found = {}
                THEN [@ EXCEPT !.pc = "done", !.returned = Some(Null), !.queries = 1]
                ELSE [@ EXCEPT !.pc = "build", !.session = Some(CHOOSE s \in found : TRUE),
                               !.queries = 1]]
    /\ UNCHANGED <<chat, hook, hubVars, stintVars, fixVars, storeVars, resp, clock, cache>>

\* getSessionData: the six queries after the session query, read in one snapshot
SessionBuild(c) ==
    /\ calls[c].pc = "build"
    /\ \E dd \in GetDriversData, td \in GetTimingData :
          calls' = [calls EXCEPT ![c] =
              [@ EXCEPT !.pc = "setex",
                        !.value = Some(ServiceSessionData(calls[c].session[1], dd, td)),
                        !.queries = 7]]
    /\ UNCHANGED <<chat, hook, hubVars, stintVars, fixVars, storeVars, resp, clock, cache>>

\* await this.redis.setex(cacheKey, ttl, JSON.stringify(value)); return value
CacheStore(c) ==
    /\ calls[c].pc = "setex"
    /\ LET op == calls[c].op
           value == calls[c].value[1]
       IN  cache' = RedisSetex(KeyOf(op), Ttl(op), Stringify(op, value), value)
    /\ calls' = [calls EXCEPT ![c] = [@ EXCEPT !.pc = "done", !.returned = Some(calls[c].value)]]
    /\ UNCHANGED <<chat, hook, hubVars, stintVars, fixVars, storeVars, resp, clock>>

\* a store query rejects: catch (error) { console.error(...); throw new Error(...) }
DbThrow(c) ==
    /\ calls[c].pc \in {"query", "build"}
    /\ calls' = [calls EXCEPT ![c] =
          [@ EXCEPT !.pc = "done", !.queries = @ + 1,
                    !.error = IF calls[c].op = "schedule"
                              THEN "Failed to fetch season schedule"
                              ELSE "Failed to fetch session data"]]
    /\ UNCHANGED <<chat, hook, hubVars, stintVars, fixVars, storeVars, resp, clock, cache>>

Tick ==
    /\ \E t \in Instants : t > clock /\ clock' = t
    /\ UNCHANGED <<chat, hook, hubVars, stintVars, fixVars, storeVars, resp, cache, calls>>

\* the rows the ingestion adds to lap_times while the service runs
IngestRows == {Lap("1", 1, 90500)}

InsertLap ==
    /\ f1_sessions # {}
    /\ Cardinality(lap_times) < MaxRows
    /\ \E r \in IngestRows \ lap_times : lap_times' = lap_times \cup {r}
    /\ UNCHANGED <<chat, hook, f1_sessions, telemetry_data, request, resp, cacheVars, hubVars,
                   stintVars, fixVars>>

InitCache ==
    /\ f1_sessions \in SessionTables
    /\ \A r \in f1_sessions : r.session_date # Null
    /\ lap_times = {}
    /\ telemetry_data = {}
    /\ request = Request(Some(2024), Some(1), "Race")
    /\ resp = NoResponse
    /\ clock = 0
    /\ cache = [k \in CacheKeys |-> Null]
    /\ calls = [c \in CallIds |-> IdleCall]
    /\ connected = {}
    /\ closed = {}
    /\ rooms = <<>>
    /\ toServer = <<>>
    /\ toClient = <<>>
    /\ component = <<>>
    /\ received = <<>>
    /\ delivered = <<>>
    /\ joined = <<>>
    /\ published = <<>>
    /\ driverLaps = <<>>
    /\ strategyData = <<>>
    /\ constraints = {}
    /\ fixPc = "off"
    /\ chat = <<>>
    /\ hook = <<>>

NextCache ==
    \/ \E c \in CallIds : CacheLookup(c)
    \/ \E c \in CallIds : ScheduleDbQuery(c)
    \/ \E c \in CallIds : SessionDbQuery(c)
    \/ \E c \in CallIds : SessionBuild(c)
    \/ \E c \in CallIds : CacheStore(c)
    \/ \E c \in CallIds : DbThrow(c)
    \/ Tick
    \/ InsertLap

SpecCache == InitCache /\ [][NextCache]_vars

----------------------------------------------------------------------------
(* Properties of the cached service calls, checked under SpecCache *)

\* the calls of operation op whose store queries are in flight
Producing(op) == {c \in CallIds : calls[c].op = op /\ calls[c].pc \in {"query", "build"}}

\* C1: at every instant at most one producer execution is in flight per cache
\* key; concurrent callers of an uncached key do not query the store themselves.
C1_OneProducerPerKey == \A op \in Ops : Cardinality(Producing(op)) <= 1

\* C2: a call whose cache lookup falls into the TTL window of a written entry
\* issues no store query and returns the value that entry was produced from,
\* as its JSON round trip.
C2_HitInTtlWindow ==
    \A c \in CallIds :
        calls[c].window # Null =>
            /\ calls[c].pc = "done"
            /\ calls[c].error = ""
            /\ calls[c].queries = 0
            /\ calls[c].returned =
                  Some(Some(Parse(Stringify(calls[c].op, calls[c].window[1].produced))))

\* C2 witness: a session call answered from an entry written at 0, one second
\* before the entry expires and after laps arrived that the answer does not show
C2_Witness ==
    \E c \in CallIds :
        /\ calls[c].op = "session" /\ calls[c].pc = "done" /\ calls[c].window # Null
        /\ clock = 1799 /\ lap_times # {}
        /\ DOMAIN calls[c].returned[1][1].drivers = {}

\* C14: an entry that is written and unexpired is not written again: every
\* write to a key finds the key empty or its entry expired.
C14_NoRewriteBeforeExpiry ==
    [][\A k \in CacheKeys :
          (cache[k] # Null /\ clock < cache[k][1].expiry) => cache'[k] = cache[k]]_vars

\* the longest time an entry of each resource may be served, in seconds
ClaimedTtl(op) == CASE op = "schedule" -> 3600 [] op = "session" -> 1800 [] OTHER -> 5

\* C15: a call is answered from the cache only when its lookup comes less than
\* 3600 s (schedule), 1800 s (session) or 5 s (live snapshot) after the entry
\* was written; a lookup that finds the entry at or past that age is not
\* answered from it and runs the producer again.
C15_ServedWithinTtl ==
    \A c \in CallIds :
        LET call == calls[c] IN
        call.op # "none" =>
            /\ call.fromCache =>
                  /\ call.seen # Null
                  /\ call.lookedAt < call.seen[1].setAt + ClaimedTtl(call.op)
                  /\ call.returned = Some(Some(Parse(call.seen[1].val)))
            /\ (call.seen # Null /\ call.lookedAt >= call.seen[1].setAt + ClaimedTtl(call.op)) =>
                  /\ ~call.fromCache
                  /\ (call.pc = "done" /\ call.error = "") =>
                        \/ call.queries > 0
                        \/ call.op = "live" /\ call.returned[1][1].timestamp = call.lookedAt

\* C15 witness: a live snapshot written at 0 is found at 5 and built anew
C15_Witness ==
    \E c \in CallIds :
        /\ calls[c].op = "live" /\ calls[c].pc = "done" /\ calls[c].seen # Null
        /\ calls[c].seen[1].setAt = 0 /\ calls[c].lookedAt = 5
        /\ ~calls[c].fromCache /\ calls[c].returned[1][1].timestamp = 5

----------------------------------------------------------------------------
(* Properties of the read handlers, checked under Spec *)

SessionRoutes == {"session", "old session", "service.session"}
RankingRoutes == {"session", "old session"}
ScheduleRoutes == {"schedule", "old schedule", "service.schedule"}

\* the last response is a SessionView
IsView(r) == r.route \in SessionRoutes /\ r.success /\ r.data # Null
View(r) == r.data[1]

\* reading a property of a JavaScript object: Null (undefined) when it is missing
Field(obj, name) == IF name \in DOMAIN obj THEN Some(obj[name]) ELSE Null

\* the requested session is in the store
SessionExists ==
    /\ request.year # Null /\ request.round # Null
    /\ SessionQuery(request.year[1], request.round[1], request.session) # {}

\* the present lap times the store holds for competitor d
TimedLaps(d) == {r.lap_time[1] : r \in {q \in lap_times : q.driver_number = d /\ q.lap_time # Null}}

\* C3: two get-session calls with identical session, competitor and lap
\* inputs give identical output (store and request never change under Spec,
\* so any two consecutive answers of one handler had identical inputs).
C3_SameInputsSameView ==
    [][(IsView(resp) /\ IsView(resp') /\ resp.route = resp'.route)
          => View(resp') = View(resp)]_vars

\* C4: a request in which a store read failed ends in a reported failure that
\* carries no data, and getTelemetryData hands out mock telemetry only when
\* both of its queries succeeded and the telemetry query found no row.
C4_StoreErrorsPropagate ==
    /\ resp.failAt # 0 => (~resp.success /\ resp.data = Null /\ resp.error # "")
    /\ (resp.route = "service.telemetry" /\ resp.success /\ resp.data # Null /\ resp.data[1].mock)
          => (resp.failAt = 0 /\ SessionExists /\ resp.data[1].driver \notin telemetry_data)

\* C4 witness: the third query of the session route failed and the caller got the 500
C4_Witness ==
    resp.route = "session" /\ resp.failAt = 3 /\ resp.status = 500 /\ SessionExists

\* C5: a lookup of an existing session that has zero lap rows succeeds with a
\* SessionView holding at least one competitor.
C5_ZeroLapsOneCompetitor ==
    (resp.route \in SessionRoutes /\ resp.failAt = 0 /\ SessionExists /\ lap_times = {})
        => (IsView(resp) /\ DOMAIN View(resp).drivers # {})

\* C6: the schedule of a year without session rows is the synthetic 8-round
\* calendar, not an empty list and not an error.
C6_EmptyYearSyntheticCalendar ==
    (resp.route \in ScheduleRoutes /\ resp.failAt = 0 /\ request.year # Null
        /\ {q \in f1_sessions : q.year = request.year[1]} = {})
        => (resp.success /\ resp.data # Null /\ Len(resp.data[1]) = 8)

\* the minimum of competitor d's present lap times, Null when there is none
MinTimedLap(d) == IF TimedLaps(d) = {} THEN Null ELSE Some(Min(TimedLaps(d)))

\* C7: every competitor's fastest_lap is the minimum of the competitor's
\* present lap times, and null when there is none; the ranked timing entry of
\* the competitor shows that same value, never a substituted number.
C7_FastestLapIsMinimum ==
    IsView(resp) =>
        /\ \A d \in DOMAIN View(resp).drivers :
              View(resp).drivers[d].fastest_lap = MinTimedLap(d)
        /\ resp.route \in RankingRoutes =>
              \A i \in 1..Len(View(resp).timing) :
                  View(resp).timing[i].lap_time = MinTimedLap(View(resp).timing[i].driver)

\* C8: timing ranks the competitors by ascending fastest lap, absent ones
\* last, and its first entry is the fastest competitor, marked "LEADER".
C8_TimingRanked ==
    (IsView(resp) /\ DOMAIN View(resp).drivers # {}) =>
        LET t == View(resp).timing
            fl(i) == View(resp).drivers[t[i].driver].fastest_lap
        IN  /\ Len(t) >= 1
            /\ \A i, j \in 1..Len(t) : i < j => NullsLastLeq(fl(i), fl(j))
            /\ \A d \in DOMAIN View(resp).drivers :
                  NullsLastLeq(fl(1), View(resp).drivers[d].fastest_lap)
            /\ Field(t[1], "gap") = Some(LEADER)

\* C9: competitors with equal fastest laps appear in timing in the order of
\* the competitor set (table drivers).
C9_TiesKeepInputOrder ==
    (IsView(resp) /\ resp.route = "session") =>
        LET t == View(resp).timing
            fl(i) == View(resp).drivers[t[i].driver].fastest_lap
        IN  \A i, j \in 1..Len(t) :
                (i < j /\ fl(i) = fl(j)) => DriverRank(t[i].driver) < DriverRank(t[j].driver)

\* C10: only the first timing entry is marked "LEADER"; each later entry's
\* gap is its lap time minus the lap time of the entry right ahead of it.
C10_GapIsDeltaToCarAhead ==
    (IsView(resp) /\ resp.route \in RankingRoutes) =>
        LET t == View(resp).timing IN
        \A i \in 1..Len(t) :
            /\ (t[i].gap = LEADER) <=> (i = 1)
            /\ (i > 1 /\ t[i].lap_time # Null /\ t[i - 1].lap_time # Null)
                  => t[i].gap = GapText(t[i].lap_time[1] - t[i - 1].lap_time[1], 1)

\* the HTTP handlers of get-session and get-schedule
HttpSessionRoutes == {"session", "old session", "service route session"}
HttpScheduleRoutes == {"schedule", "old schedule", "service route schedule"}

\* C11: a get-session request for a (year, round, kind) without a session row
\* is answered 404 session not found, with no view and no data.
C11_NoSessionIs404 ==
    (resp.route \in HttpSessionRoutes /\ resp.failAt = 0
        /\ request.year # Null /\ request.round # Null /\ ~SessionExists)
        => (resp.status = 404 /\ ~resp.success /\ resp.data = Null)

\* session_type: FP1, FP2, FP3, Q, Sprint, Race
SessionKinds == {"FP1", "FP2", "FP3", "Q", "Sprint", "Race"}

\* C12: a get-schedule request with a non-numeric year, and a get-session
\* request with a non-numeric year or round or an unknown session kind, is
\* answered 400 and no store query is issued for it.
C12_InvalidInputIs400 ==
    /\ (resp.route \in HttpScheduleRoutes /\ request.year = Null)
          => (resp.status = 400 /\ resp.queries = 0)
    /\ (resp.route \in HttpSessionRoutes
            /\ (request.year = Null \/ request.round = Null \/ request.session \notin SessionKinds))
          => (resp.status = 400 /\ resp.queries = 0)

TelemetryRoutes == {"telemetry", "service.telemetry"}

\* C13: telemetry arrays are handed out only for a competitor that has a
\* telemetry row in the requested session; the telemetry route answers 404
\* otherwise.
C13_NoTelemetryIs404 ==
    /\ (resp.route \in TelemetryRoutes /\ resp.success /\ resp.data # Null)
          => (SessionExists /\ resp.data[1].driver \in telemetry_data /\ ~resp.data[1].mock)
    /\ (resp.route = "telemetry" /\ ~resp.success) => resp.status = 404

\* C19: when the lap rows of one competitor hold two records with the same
\* lap number, the request still succeeds with a view, and that competitor's
\* laps hold one record per lap number.
C19_DuplicateLapKeptOnce ==
    (resp.route \in SessionRoutes /\ resp.failAt = 0 /\ SessionExists) =>
        /\ IsView(resp)
        /\ \A d \in DOMAIN View(resp).drivers :
              LET laps == View(resp).drivers[d].laps
              IN  \A i \in DOMAIN laps : \A j \in DOMAIN laps :
                      i < j => laps[i].lap_number # laps[j].lap_number

\* the stored row of the requested session
StoredSession ==
    CHOOSE s \in SessionQuery(request.year[1], request.round[1], request.session) : TRUE

\* C21: the event name, location, weather and circuit info of a SessionView
\* are the values of the stored session row, an absent weather snapshot or
\* circuit info staying absent.
C21_MetadataUnchanged ==
    (IsView(resp) /\ SessionExists) =>
        /\ View(resp).session_info.event_name = StoredSession.event_name
        /\ View(resp).session_info.location = StoredSession.location
        /\ View(resp).weather = StoredSession.weather_data
        /\ View(resp).circuit_info = StoredSession.circuit_info

\* C25: each competitor's laps in a SessionView are lap records of that
\* competitor, in strictly ascending lap-number order.
C25_LapsOwnedAndAscending ==
    IsView(resp) =>
        \A d \in DOMAIN View(resp).drivers :
            LET laps == View(resp).drivers[d].laps
            IN  /\ \A i \in DOMAIN laps : \E r \in LapsOf(d) : LapJson(r) = laps[i]
                /\ \A i \in DOMAIN laps : \A j \in DOMAIN laps :
                       i < j => laps[i].lap_number < laps[j].lap_number

\* the present lap times among the laps a view lists for a competitor
ListedTimes(laps) == {laps[i].lap_time[1] : i \in {j \in DOMAIN laps : laps[j].lap_time # Null}}

\* C28: every lap record stored for the session appears in the laps list of
\* its competitor in the SessionView, however many laps the session holds, and
\* the competitor's fastest_lap is the minimum over the laps listed.
C28_EveryStoredLapListed ==
    IsView(resp) =>
        \A d \in DOMAIN View(resp).drivers :
            LET laps == View(resp).drivers[d].laps
            IN  /\ \A r \in LapsOf(d) : \E i \in DOMAIN laps : laps[i] = LapJson(r)
                /\ View(resp).drivers[d].fastest_lap =
                       IF ListedTimes(laps) = {} THEN Null ELSE Some(Min(ListedTimes(laps)))

\* timing entries of competitor d in a view
TimingEntriesOf(v, d) == {i \in DOMAIN v.timing : v.timing[i].driver = d}

\* entry i of the timing shows position p (the service passes the nullable
\* column on, the routes number the entries themselves)
PositionIs(v, i, p) ==
    IF v.variant = "F1Service" THEN v.timing[i].position = Some(p)
    ELSE v.timing[i].position = p

\* C29: in every SessionView, timing holds exactly one entry for each key of
\* drivers and none for a competitor missing from drivers, and the positions
\* of its n entries are the numbers 1..n, each once.
C29_TimingMatchesDrivers ==
    IsView(resp) =>
        LET v == View(resp) IN
        /\ \A d \in DOMAIN v.drivers : Cardinality(TimingEntriesOf(v, d)) = 1
        /\ \A i \in DOMAIN v.timing : v.timing[i].driver \in DOMAIN v.drivers
        /\ \A p \in 1..Len(v.timing) :
               Cardinality({i \in DOMAIN v.timing : PositionIs(v, i, p)}) = 1

----------------------------------------------------------------------------
(* Live broadcast: the socket.io rooms of server.ts and the LiveTiming       *)
(* component of the client (specification SpecHub)                          *)

MaxPublishes == 2    \* events published in a run
MaxInFlight == 1     \* join_session messages one socket has in flight

Sockets == {"c1", "c2"}
SessionIds == {"2024_1_Race", "2024_1_Q"}

Range(q) == {q[i] : i \in DOMAIN q}

\* socket.join(sessionId) with every room instead of the one asked for
SocketJoinAll(rs, s, sessionId) == [k \in DOMAIN rs |-> rs[k] \cup {s}]

\* socket.join(sessionId)
SocketJoin(rs, s, sessionId) == [rs EXCEPT ![sessionId] = @ \cup {s}]

\* a socket that disconnects leaves every room
LeaveAll(rs, s) == [k \in DOMAIN rs |-> rs[k] \ {s}]

\* the sockets an emit to room sessionKey goes to
To(rs, sessionKey) == rs[sessionKey]

\* an emit that overtakes the events still in flight
EmitFirst(q, e) == <<e>> \o q

\* an emit on one socket: the connection keeps the order of its packets
Emit(q, e) == Append(q, e)

\* the component of a client, before it is mounted and after it was unmounted
NotMounted(unmounted) ==
    [sessionId |-> Null, listening |-> FALSE, unmounted |-> unmounted]

\* io.on('connection'): every connection is a socket of its own
Connect(s) ==
    /\ s \notin connected \cup closed
    /\ connected' = connected \cup {s}
    /\ UNCHANGED <<closed, rooms, toServer, toClient, component, received, delivered,
                   joined, published>>
    /\ UNCHANGED <<chat, hook, storeVars, resp, cacheVars, stintVars, fixVars>>

\* LiveTiming's effect, on mount and whenever sessionId changes: the cleanup
\* of the previous run (socket.off) and then emit('join_session') and
\* socket.on
Effect(s, sessionId) ==
    /\ s \in connected
    /\ component[s].sessionId # Some(sessionId)
    /\ ~component[s].unmounted
    /\ Len(toServer[s]) < MaxInFlight
    /\ component' = [component EXCEPT ![s] =
                        [sessionId |-> Some(sessionId), listening |-> TRUE,
                         unmounted |-> FALSE]]
    /\ toServer' = [toServer EXCEPT ![s] = Append(@, sessionId)]
    /\ UNCHANGED <<connected, closed, rooms, toClient, received, delivered, joined,
                   published>>
    /\ UNCHANGED <<chat, hook, storeVars, resp, cacheVars, stintVars, fixVars>>

\* LiveTiming unmounts when the page is left: the cleanup removes the
\* listeners, nothing is sent
Cleanup(s) ==
    /\ component[s].sessionId # Null
    /\ component' = [component EXCEPT ![s] = NotMounted(TRUE)]
    /\ UNCHANGED <<connected, closed, rooms, toServer, toClient, received, delivered,
                   joined, published>>
    /\ UNCHANGED <<chat, hook, storeVars, resp, cacheVars, stintVars, fixVars>>

\* socket.on('join_session')
JoinSession(s) ==
    /\ s \in connected
    /\ toServer[s] # <<>>
    /\ rooms' = SocketJoin(rooms, s, Head(toServer[s]))
    /\ joined' = [joined EXCEPT ![s] = @ \cup {Head(toServer[s])}]
    /\ toServer' = [toServer EXCEPT ![s] = Tail(@)]
    /\ UNCHANGED <<connected, closed, toClient, component, received, delivered,
                   published>>
    /\ UNCHANGED <<chat, hook, storeVars, resp, cacheVars, stintVars, fixVars>>

\* socket.on('disconnect'): the connection and what was in flight on it are
\* gone; the component stays mounted and does not join again
Disconnect(s) ==
    /\ s \in connected
    /\ connected' = connected \ {s}
    /\ closed' = closed \cup {s}
    /\ rooms' = LeaveAll(rooms, s)
    /\ joined' = [joined EXCEPT ![s] = {}]
    /\ toServer' = [toServer EXCEPT ![s] = <<>>]
    /\ toClient' = [toClient EXCEPT ![s] = <<>>]
    /\ UNCHANGED <<component, received, delivered, published>>
    /\ UNCHANGED <<chat, hook, storeVars, resp, cacheVars, stintVars, fixVars>>

\* publish(sessionKey, event): io.to(sessionKey).emit('timing_update', event)
Publish(sessionKey) ==
    /\ Len(published) < MaxPublishes
    /\ LET e == [room |-> sessionKey, n |-> Len(published) + 1]
       IN  /\ toClient' = [s \in Sockets |->
                              IF s \in To(rooms, sessionKey)
                              THEN Emit(toClient[s], e) ELSE toClient[s]]
           /\ delivered' = [s \in Sockets |->
                               IF s \in To(rooms, sessionKey)
                               THEN Append(delivered[s], e) ELSE delivered[s]]
           /\ published' =
                 Append(published,
                        [event |-> e,
                         members |-> {s \in Sockets : sessionKey \in joined[s]}])
    /\ UNCHANGED <<connected, closed, rooms, toServer, component, received, joined>>
    /\ UNCHANGED <<chat, hook, storeVars, resp, cacheVars, stintVars, fixVars>>

\* socket.on('timing_update', data => setTimingData(data)): an event that
\* arrives while no listener is registered is dropped
Receive(s) ==
    /\ toClient[s] # <<>>
    /\ toClient' = [toClient EXCEPT ![s] = Tail(@)]
    /\ received' = [received EXCEPT ![s] =
                       IF component[s].listening THEN Append(@, Head(toClient[s])) ELSE @]
    /\ UNCHANGED <<connected, closed, rooms, toServer, component, delivered, joined,
                   published>>
    /\ UNCHANGED <<chat, hook, storeVars, resp, cacheVars, stintVars, fixVars>>

InitHub ==
    /\ f1_sessions = {}
    /\ lap_times = {}
    /\ telemetry_data = {}
    /\ request = Request(Some(2024), Some(1), "Race")
    /\ resp = NoResponse
    /\ clock = 0
    /\ cache = <<>>
    /\ calls = <<>>
    /\ connected = {}
    /\ closed = {}
    /\ rooms = [k \in SessionIds |-> {}]
    /\ toServer = [s \in Sockets |-> <<>>]
    /\ toClient = [s \in Sockets |-> <<>>]
    /\ component = [s \in Sockets |-> NotMounted(FALSE)]
    /\ received = [s \in Sockets |-> <<>>]
    /\ delivered = [s \in Sockets |-> <<>>]
    /\ joined = [s \in Sockets |-> {}]
    /\ published = <<>>
    /\ driverLaps = <<>>
    /\ strategyData = <<>>
    /\ constraints = {}
    /\ fixPc = "off"
    /\ chat = <<>>
    /\ hook = <<>>

NextHub ==
    \/ \E s \in Sockets : Connect(s)
    \/ \E s \in Sockets, sessionId \in SessionIds : Effect(s, sessionId)
    \/ \E s \in Sockets : Cleanup(s)
    \/ \E s \in Sockets : JoinSession(s)
    \/ \E s \in Sockets : Disconnect(s)
    \/ \E sessionKey \in SessionIds : Publish(sessionKey)
    \/ \E s \in Sockets : Receive(s)

SpecHub == InitHub /\ [][NextHub]_vars

----------------------------------------------------------------------------
(* Properties of the live broadcast, checked under SpecHub *)

Viewing(s, sessionId) ==
    /\ s \in connected
    /\ component[s].sessionId = Some(sessionId)
    /\ toServer[s] = <<>>

\* C26: once a client has changed its viewed session to B and the join of B
\* is handled, an event published to another room is not delivered to it.
C26_OnlyViewedRoomDelivers ==
    [][\A s \in Sockets : \A b \in SessionIds :
          (/\ Viewing(s, b)
           /\ Len(published') = Len(published) + 1
           /\ published'[Len(published')].event.room # b)
              => delivered'[s] = delivered[s]]_vars

\* C17: the events of one room reach the listeners of every client in the
\* order in which they were published.
C17_PerRoomFifo ==
    \A s \in Sockets : \A i, j \in DOMAIN received[s] :
        (i < j /\ received[s][i].room = received[s][j].room)
            => received[s][i].n < received[s][j].n

\* C17 witness: a client has received two events of the same room.
C17_Witness ==
    \E s \in Sockets : \E i, j \in DOMAIN received[s] :
        i < j /\ received[s][i].room = received[s][j].room

----------------------------------------------------------------------------
(* Race strategy: the stints RaceStrategy derives from the laps of one      *)
(* driver of the session view (specification SpecStints)                    *)

MaxLaps == 3         \* laps of the driver, and the highest lap number

Compounds == {"SOFT", "MEDIUM"}

\* one element of driver.laps
StintLap(n, c, t) == [lap_number |-> n, compound |-> c, lap_time |-> t]

StintLaps ==
    {StintLap(n, c, t) : n \in 1..MaxLaps,
                         c \in {Null} \cup {Some(x) : x \in Compounds},
                         t \in {Null} \cup {Some(x) : x \in LapTimeValues}}

\* driver.laps as the session route builds it: the rows of the driver in
\* ORDER BY lap_number, which lap_times does not keep unique
OrderedLaps(q) ==
    \A i \in DOMAIN q : \A j \in DOMAIN q : i < j => q[i].lap_number <= q[j].lap_number

\* the stint pushed for currentStint; averageTime as <<sum, count>>
PushedStint(cs) ==
    [startLap |-> cs.startLap, endLap |-> cs.endLap, compound |-> cs.compound,
     stintLength |-> cs.endLap - cs.startLap + 1,
     averageTime |-> IF Len(cs.times) > 0
                     THEN Some(<<cs.sum, Len(cs.times)>>) ELSE Null]

RECURSIVE StintFoldExtending(_, _, _)
\* the loop with a lap without compound moving the end of the current stint
StintFoldExtending(laps, currentStint, stints) ==
    IF laps = <<>>
    THEN IF currentStint # Null THEN Append(stints, PushedStint(currentStint[1])) ELSE stints
    ELSE LET lap == Head(laps)
             timed == IF Truthy(lap.lap_time) THEN <<lap.lap_time[1]>> ELSE <<>>
         IN  IF lap.compound = Null
             THEN StintFoldExtending(Tail(laps),
                                     IF currentStint = Null THEN Null
                                     ELSE Some([currentStint[1] EXCEPT
                                                   !.endLap = lap.lap_number]),
                                     stints)
             ELSE IF currentStint = Null \/ currentStint[1].compound # lap.compound[1]
             THEN StintFoldExtending(Tail(laps),
                                     Some([startLap |-> lap.lap_number,
                                           endLap |-> lap.lap_number,
                                           compound |-> lap.compound[1], times |-> timed,
                                           sum |-> IF timed = <<>> THEN 0 ELSE timed[1]]),
                                     IF currentStint # Null
                                     THEN Append(stints, PushedStint(currentStint[1]))
                                     ELSE stints)
             ELSE StintFoldExtending(Tail(laps),
                                     Some([currentStint[1] EXCEPT
                                             !.endLap = lap.lap_number,
                                             !.times = @ \o timed,
                                             !.sum = IF timed = <<>> THEN @ ELSE @ + timed[1]]),
                                     stints)

RECURSIVE StintFold(_, _, _)
\* driver.laps.forEach(lap => ...) and the final push
StintFold(laps, currentStint, stints) ==
    IF laps = <<>>
    THEN IF currentStint # Null THEN Append(stints, PushedStint(currentStint[1])) ELSE stints
    ELSE LET lap == Head(laps)
         IN  IF lap.compound = Null
             THEN StintFold(Tail(laps), currentStint, stints)
             ELSE IF currentStint = Null \/ currentStint[1].compound # lap.compound[1]
             THEN StintFold(Tail(laps),
                            Some([startLap |-> lap.lap_number, endLap |-> lap.lap_number,
                                  compound |-> lap.compound[1],
                                  times |-> IF Truthy(lap.lap_time)
                                            THEN <<lap.lap_time[1]>> ELSE <<>>,
                                  sum |-> IF Truthy(lap.lap_time)
                                          THEN lap.lap_time[1] ELSE 0]),
                            IF currentStint # Null
                            THEN Append(stints, PushedStint(currentStint[1])) ELSE stints)
             ELSE StintFold(Tail(laps),
                            Some([currentStint[1] EXCEPT
                                    !.endLap = lap.lap_number,
                                    !.times = IF Truthy(lap.lap_time)
                                              THEN Append(@, lap.lap_time[1]) ELSE @,
                                    !.sum = IF Truthy(lap.lap_time)
                                            THEN @ + lap.lap_time[1] ELSE @]),
                            stints)

\* the stints of one driver
DeriveStints(laps) == StintFold(laps, Null, <<>>)

\* useMemo(() => ..., [sessionData]) for the driver
StrategyData ==
    /\ strategyData = Null
    /\ strategyData' = Some(DeriveStints(driverLaps))
    /\ UNCHANGED <<chat, hook, driverLaps, storeVars, resp, cacheVars, hubVars, fixVars>>

InitStints ==
    /\ f1_sessions = {}
    /\ lap_times = {}
    /\ telemetry_data = {}
    /\ request = Request(Some(2024), Some(1), "Race")
    /\ resp = NoResponse
    /\ clock = 0
    /\ cache = <<>>
    /\ calls = <<>>
    /\ connected = {}
    /\ closed = {}
    /\ rooms = <<>>
    /\ toServer = <<>>
    /\ toClient = <<>>
    /\ component = <<>>
    /\ received = <<>>
    /\ delivered = <<>>
    /\ joined = <<>>
    /\ published = <<>>
    /\ \E n \in 0..MaxLaps : driverLaps \in [1..n -> StintLaps]
    /\ OrderedLaps(driverLaps)
    /\ strategyData = Null
    /\ constraints = {}
    /\ fixPc = "off"
    /\ chat = <<>>
    /\ hook = <<>>

NextStints == StrategyData

SpecStints == InitStints /\ [][NextStints]_vars

----------------------------------------------------------------------------
(* Properties of the stint derivation, checked under SpecStints *)

RECURSIVE StintRanges(_)
\* the lap ranges startLap..endLap of the stints, concatenated in output order
StintRanges(stints) ==
    IF stints = <<>> THEN <<>>
    ELSE [i \in 1..(Head(stints).endLap - Head(stints).startLap + 1) |->
             Head(stints).startLap + i - 1] \o StintRanges(Tail(stints))

HasCompound(lap) == lap.compound # Null

\* C23: the stints derived from a lap sequence are those derived from the
\* sequence with every lap without compound removed.
C23_CompoundlessLapsSkipped ==
    strategyData # Null =>
        strategyData[1] = DeriveStints(SelectSeq(driverLaps, HasCompound))

\* C23 witness: stints were derived from laps in which a lap without compound
\* lies between two laps of one compound.
C23_Witness ==
    /\ strategyData # Null
    /\ strategyData[1] # <<>>
    /\ \E i \in DOMAIN driverLaps : \E j \in DOMAIN driverLaps : \E k \in DOMAIN driverLaps :
          /\ i < j /\ j < k
          /\ driverLaps[j].compound = Null
          /\ driverLaps[i].compound # Null
          /\ driverLaps[i].compound = driverLaps[k].compound

RECURSIVE Runs(_)
\* a lap sequence cut into its maximal runs of one compound
Runs(laps) ==
    IF laps = <<>> THEN <<>>
    ELSE LET rest == Runs(Tail(laps))
         IN  IF rest # <<>> /\ Head(rest)[1].compound = Head(laps).compound
             THEN <<<<Head(laps)>> \o Head(rest)>> \o Tail(rest)
             ELSE <<<<Head(laps)>>>> \o rest

\* C24: every stint has the lap numbers of the first and the last lap grouped
\* into it as its start and end, the number of these laps as its
\* stintLength, and no averageTime exactly when none of them has a lap time.
C24_StintRecordsItsLaps ==
    strategyData # Null =>
        LET runs == Runs(SelectSeq(driverLaps, HasCompound))
            stints == strategyData[1]
        IN  /\ Len(stints) = Len(runs)
            /\ \A k \in DOMAIN stints :
                  /\ stints[k].startLap = runs[k][1].lap_number
                  /\ stints[k].endLap = runs[k][Len(runs[k])].lap_number
                  /\ stints[k].stintLength = Len(runs[k])
                  /\ (stints[k].averageTime = Null)
                        <=> (\A i \in DOMAIN runs[k] : runs[k][i].lap_time = Null)

\* C18: the lap ranges of the derived stints, concatenated in output order,
\* are in ascending lap order and contain every lap that has a compound
\* exactly once.
C18_StintsCoverLapsOnce ==
    strategyData # Null =>
        LET covered == StintRanges(strategyData[1])
        IN  /\ \A i \in DOMAIN covered : \A j \in DOMAIN covered :
                   i < j => covered[i] < covered[j]
            /\ \A k \in DOMAIN driverLaps :
                   driverLaps[k].compound # Null =>
                       Cardinality({i \in DOMAIN covered :
                                       covered[i] = driverLaps[k].lap_number}) = 1

----------------------------------------------------------------------------
(* The database fix script run on a store with content (specification       *)
(* SpecFix); every lap row is of session id 1                               *)

LapUnique == "lap_times_session_driver_lap_unique"

\* two rows of lap_times with the same (session_id, driver_number, lap_number)
SameLapKey(r1, r2) ==
    r1.driver_number = r2.driver_number /\ r1.lap_number = r2.lap_number

\* what UNIQUE (session_id, driver_number, lap_number) demands of the rows
UniqueLapKeys(rows) == \A r1 \in rows : \A r2 \in rows : SameLapKey(r1, r2) => r1 = r2

\* BEGIN
FixBegin ==
    /\ fixPc = "begin"
    /\ chat = <<>>
    /\ hook = <<>>
    /\ fixPc' = "fix2"
    /\ UNCHANGED <<chat, hook, constraints, storeVars, resp, cacheVars, hubVars, stintVars>>

\* Fix 2: ALTER TABLE ... ADD CONSTRAINT unless it exists; the unique
\* violation of rows that already repeat a key is caught by WHEN others and
\* only reported as a notice
Fix2 ==
    /\ fixPc = "fix2"
    /\ constraints' = IF LapUnique \notin constraints /\ UniqueLapKeys(lap_times)
                      THEN constraints \cup {LapUnique} ELSE constraints
    /\ fixPc' = "fix4"
    /\ UNCHANGED <<chat, hook, storeVars, resp, cacheVars, hubVars, stintVars>>

\* Fix 4: DELETE the lap rows without a session row or without a driver row
Fix4 ==
    /\ fixPc = "fix4"
    /\ lap_times' = {r \in lap_times : f1_sessions # {} /\ r.driver_number \in DriverSet}
    /\ fixPc' = "commit"
    /\ UNCHANGED <<chat, hook, f1_sessions, telemetry_data, request, constraints, resp, cacheVars,
                   hubVars, stintVars>>

\* COMMIT
FixCommit ==
    /\ fixPc = "commit"
    /\ fixPc' = "committed"
    /\ UNCHANGED <<chat, hook, constraints, storeVars, resp, cacheVars, hubVars, stintVars>>

\* a store created by schema.sql, with or without the constraint, and any
\* rows the tables admit
InitFix ==
    /\ f1_sessions \in SessionTables
    /\ lap_times \in LapTables
    /\ f1_sessions = {} => lap_times = {}
    /\ telemetry_data = {}
    /\ request = Request(Some(2024), Some(1), "Race")
    /\ resp = NoResponse
    /\ clock = 0
    /\ cache = <<>>
    /\ calls = <<>>
    /\ connected = {}
    /\ closed = {}
    /\ rooms = <<>>
    /\ toServer = <<>>
    /\ toClient = <<>>
    /\ component = <<>>
    /\ received = <<>>
    /\ delivered = <<>>
    /\ joined = <<>>
    /\ published = <<>>
    /\ driverLaps = <<>>
    /\ strategyData = <<>>
    /\ constraints \in SUBSET {LapUnique}
    /\ LapUnique \in constraints => UniqueLapKeys(lap_times)
    /\ fixPc = "begin"
    /\ chat = <<>>
    /\ hook = <<>>

NextFix ==
    \/ FixBegin
    \/ Fix2
    \/ Fix4
    \/ FixCommit

SpecFix == InitFix /\ [][NextFix]_vars

----------------------------------------------------------------------------
(* Properties of the store, checked under SpecFix *)

\* C20: no two lap records share the same (session, competitor, lap number);
\* stated for the store states the claim singles out, those the fix script
\* leaves after its COMMIT, whatever the content before it.
C20_LapKeyUnique == fixPc = "committed" => UniqueLapKeys(lap_times)

----------------------------------------------------------------------------
(* The chat feature: POST /f1-expert and ChatService.processF1Question      *)
(* (specification SpecChat)                                                 *)

\* req.body.message: missing, an empty string, a number, a question
ChatMessages == {"undefined", "empty string", "number", "question"}

\* req.body.history: missing, null, a list of earlier messages
ChatHistories == {"undefined", "null", <<>>, <<1, 2, 3, 4, 5, 6>>}

\* what the text-completion service does with a request: it answers, the
\* request fails (refused, reset, status >= 400), or no answer ever comes
AiOutcomes == {"answers", "fails", "silent"}

CannedResponse ==
    "I'm sorry, I'm having trouble processing your question right now. Please try again."

\* history.slice(-5)
LastFive(h) == IF Len(h) <= 5 THEN h ELSE SubSeq(h, Len(h) - 4, Len(h))

\* axios.post(url, data): no timeout is configured, the call settles only
\* when the service answers or the connection fails
AxiosPost(outcome) == outcome

\* router.post('/f1-expert') up to the call of the service, and in it
\* processF1Question up to the request to the text-completion service
ChatRequest ==
    /\ chat.pc = "received"
    /\ IF chat.message # "question"
       THEN chat' = [chat EXCEPT !.pc = "done",
                                 !.res = [status |-> 400, success |-> FALSE,
                                          response |-> Null]]
       ELSE IF chat.history = "null"
       THEN chat' = [chat EXCEPT !.pc = "returned", !.returned = Some(CannedResponse)]
       ELSE chat' = [chat EXCEPT
                        !.pc = "awaiting post",
                        !.posted = Some(IF chat.history = "undefined" THEN <<>>
                                        ELSE LastFive(chat.history))]
    /\ UNCHANGED <<hook, storeVars, resp, cacheVars, hubVars, stintVars, fixVars>>

\* the awaited axios.post settles: response.data.response, or the catch
AxiosSettles ==
    /\ chat.pc = "awaiting post"
    /\ \/ /\ AxiosPost(chat.ai) = "answers"
          /\ chat' = [chat EXCEPT !.pc = "saving", !.aiResponse = Some("answer")]
       \/ /\ AxiosPost(chat.ai) = "fails"
          /\ chat' = [chat EXCEPT !.pc = "returned", !.returned = Some(CannedResponse)]
    /\ UNCHANGED <<hook, storeVars, resp, cacheVars, hubVars, stintVars, fixVars>>

\* saveChatHistory: a failed INSERT is logged and swallowed
SaveChatHistory ==
    /\ chat.pc = "saving"
    /\ chat' = [chat EXCEPT !.pc = "returned", !.returned = chat.aiResponse,
                            !.saved = chat.db = "ok"]
    /\ UNCHANGED <<hook, storeVars, resp, cacheVars, hubVars, stintVars, fixVars>>

\* res.json({ success: true, data: { response, timestamp } })
ChatRespond ==
    /\ chat.pc = "returned"
    /\ chat' = [chat EXCEPT !.pc = "done",
                            !.res = [status |-> 200, success |-> TRUE,
                                     response |-> chat.returned]]
    /\ UNCHANGED <<hook, storeVars, resp, cacheVars, hubVars, stintVars, fixVars>>

InitChat ==
    /\ f1_sessions = {}
    /\ lap_times = {}
    /\ telemetry_data = {}
    /\ request = Request(Some(2024), Some(1), "Race")
    /\ resp = NoResponse
    /\ clock = 0
    /\ cache = <<>>
    /\ calls = <<>>
    /\ connected = {}
    /\ closed = {}
    /\ rooms = <<>>
    /\ toServer = <<>>
    /\ toClient = <<>>
    /\ component = <<>>
    /\ received = <<>>
    /\ delivered = <<>>
    /\ joined = <<>>
    /\ published = <<>>
    /\ driverLaps = <<>>
    /\ strategyData = <<>>
    /\ constraints = {}
    /\ fixPc = "off"
    /\ hook = <<>>
    /\ \E m \in ChatMessages, h \in ChatHistories, a \in AiOutcomes, d \in {"ok", "fails"} :
          chat = [pc |-> "received", message |-> m, history |-> h, ai |-> a, db |-> d,
                  posted |-> Null, aiResponse |-> Null, saved |-> FALSE,
                  returned |-> Null, res |-> Null]

NextChat ==
    \/ ChatRequest
    \/ AxiosSettles
    \/ SaveChatHistory
    \/ ChatRespond

SpecChat == InitChat /\ [][NextChat]_vars

----------------------------------------------------------------------------
(* Properties of the chat feature, checked under SpecChat *)

\* C22: a chat request with a question is never left waiting with nothing
\* that can end the wait, and it ends answered 200 with a string, which is
\* the canned response when the text-completion service failed or stayed
\* silent.
C22_ChatDegradesToCanned ==
    chat.message = "question" =>
        /\ chat.pc # "done" => ENABLED NextChat
        /\ chat.pc = "done" =>
              /\ chat.res[1].status = 200
              /\ chat.res[1].response # Null
              /\ chat.ai # "answers" => chat.res[1].response = Some(CannedResponse)

----------------------------------------------------------------------------
(* The useF1Data hook of the frontend: loadSession called for one session   *)
(* and then for another, loadSchedule once (specification SpecHook)         *)

\* the calls of loadSession, in call order, and the session each asks for
HookCalls == {1, 2}
HookSession(c) == IF c = 1 THEN "2024/1/Race" ELSE "2024/1/Q"

\* loadSession(year, round, session): setIsLoading(true), setError(null) and
\* the fetch of the session
LoadSession(c) ==
    /\ hook.calls[c] = "idle"
    /\ c = 2 => hook.calls[1] # "idle"
    /\ hook' = [hook EXCEPT !.calls[c] = "session fetch", !.isLoading = TRUE,
                            !.error = Null,
                            !.overlap = @ \/ (c = 2 /\ hook.calls[1] # "done")]
    /\ UNCHANGED <<chat, storeVars, resp, cacheVars, hubVars, stintVars, fixVars>>

\* the session response of call c arrives: success with or without drivers,
\* or a failure that ends the call through catch and finally
SessionResponse(c) ==
    /\ hook.calls[c] = "session fetch"
    /\ \/ hook' = [hook EXCEPT !.calls[c] = "telemetry fetch",
                               !.sessionData = Some(HookSession(c))]
       \/ hook' = [hook EXCEPT !.calls[c] = "done",
                               !.sessionData = Some(HookSession(c)),
                               !.isLoading = FALSE]
       \/ hook' = [hook EXCEPT !.calls[c] = "done", !.failed = @ \cup {c},
                               !.error = Some("Failed to load session"),
                               !.isLoading = FALSE]
    /\ UNCHANGED <<chat, storeVars, resp, cacheVars, hubVars, stintVars, fixVars>>

\* the telemetry response of call c arrives, and the finally block runs
TelemetryResponse(c) ==
    /\ hook.calls[c] = "telemetry fetch"
    /\ \/ hook' = [hook EXCEPT !.calls[c] = "done", !.loaded = @ \cup {c},
                               !.telemetryData = Some(HookSession(c)),
                               !.isLoading = FALSE]
       \/ hook' = [hook EXCEPT !.calls[c] = "done", !.isLoading = FALSE]
    /\ UNCHANGED <<chat, storeVars, resp, cacheVars, hubVars, stintVars, fixVars>>

\* loadSchedule(year): setIsLoading(true) and the fetch of the schedule
LoadSchedule ==
    /\ hook.scheduleCall = "idle"
    /\ hook' = [hook EXCEPT !.scheduleCall = "schedule fetch", !.isLoading = TRUE]
    /\ UNCHANGED <<chat, storeVars, resp, cacheVars, hubVars, stintVars, fixVars>>

\* the schedule response arrives, and the finally block runs
ScheduleResponse ==
    /\ hook.scheduleCall = "schedule fetch"
    /\ \/ hook' = [hook EXCEPT !.scheduleCall = "done", !.schedule = Some(2024),
                               !.isLoading = FALSE]
       \/ hook' = [hook EXCEPT !.scheduleCall = "done",
                               !.error = Some("Failed to load schedule"),
                               !.isLoading = FALSE]
    /\ UNCHANGED <<chat, storeVars, resp, cacheVars, hubVars, stintVars, fixVars>>

InitHook ==
    /\ f1_sessions = {}
    /\ lap_times = {}
    /\ telemetry_data = {}
    /\ request = Request(Some(2024), Some(1), "Race")
    /\ resp = NoResponse
    /\ clock = 0
    /\ cache = <<>>
    /\ calls = <<>>
    /\ connected = {}
    /\ closed = {}
    /\ rooms = <<>>
    /\ toServer = <<>>
    /\ toClient = <<>>
    /\ component = <<>>
    /\ received = <<>>
    /\ delivered = <<>>
    /\ joined = <<>>
    /\ published = <<>>
    /\ driverLaps = <<>>
    /\ strategyData = <<>>
    /\ constraints = {}
    /\ fixPc = "off"
    /\ chat = <<>>
    /\ hook = [schedule |-> Null, sessionData |-> Null, telemetryData |-> Null,
               isLoading |-> FALSE, error |-> Null,
               calls |-> [c \in HookCalls |-> "idle"], scheduleCall |-> "idle",
               failed |-> {}, loaded |-> {}, overlap |-> FALSE]

NextHook ==
    \/ \E c \in HookCalls : LoadSession(c)
    \/ \E c \in HookCalls : SessionResponse(c)
    \/ \E c \in HookCalls : TelemetryResponse(c)
    \/ LoadSchedule
    \/ ScheduleResponse

SpecHook == InitHook /\ [][NextHook]_vars

----------------------------------------------------------------------------
(* Properties of the useF1Data hook, checked under SpecHook *)

\* C27: when loadSession was called for a second session while the first
\* call was in flight, isLoading is true as long as a loadSession call is in
\* flight, and once both calls have finished sessionData and telemetryData
\* are those of the second session (when its session response, and its
\* telemetry response, succeeded).
C27_LastRequestWins ==
    hook.overlap =>
        /\ (\E c \in HookCalls : hook.calls[c] \in {"session fetch", "telemetry fetch"})
              => hook.isLoading
        /\ (\A c \in HookCalls : hook.calls[c] = "done")
              => /\ 2 \notin hook.failed => hook.sessionData = Some(HookSession(2))
                 /\ 2 \in hook.loaded => hook.telemetryData = Some(HookSession(2))


----------------------------------------------------------------------------
(* The routes of main.js in front of F1Service: requests with different path *)
(* parameters inside one TTL window, each handled in one piece               *)
(* (specification SpecKeys)                                                  *)

\* path segments as express hands them over in req.params: decoded text, in
\* which a colon is an ordinary character
YearTexts == {"2024", "2024:1"}
RoundTexts == {"1", "Q"}
KindTexts == {"Race", "x", "Q:x"}
LiveTexts == {"2024_1_Race", "x"}

\* new Date().getFullYear() as ${year} renders it
ThisYearText == "2026"

\* a text bound to an INTEGER column: its number, or Null when the store
\* rejects it (invalid input syntax for type integer)
PgInteger(text) ==
    IF text = "2024" THEN Some(2024)
    ELSE IF text = "2026" THEN Some(2026)
    ELSE IF text = "1" THEN Some(1)
    ELSE Null

\* f1_sessions of round 1 of 2024: session_type is free text
KeyedSessionTables ==
    SUBSET {SessionRow(Null, Null, Null),
            [SessionRow(Null, Null, Null) EXCEPT !.id = 2, !.session_type = "Q:x"]}

KeyedRequest(resource, params) == [resource |-> resource, params |-> params]

\* const cacheKey = ... of the three cached methods
CacheKey(q) ==
    IF q.resource = "schedule" THEN ScheduleKey(q.params[1])
    ELSE IF q.resource = "session" THEN SessionKey(q.params[1], q.params[2], q.params[3])
    ELSE LiveKey(q.params[1])

\* an entry of the cache; producedFor records the request whose miss wrote it
KeyedEntry(q, value) == [producedFor |-> q, value |-> value]

\* const cached = await this.redis.get(cacheKey)
KeyedGet(key) == IF key \in DOMAIN cache THEN Some(cache[key]) ELSE Null

\* await this.redis.setex(cacheKey, ttl, JSON.stringify(value))
KeyedSetex(key, entry) == [k \in DOMAIN cache \cup {key} |-> IF k = key THEN entry ELSE cache[k]]

KeyedResponse(q, status, queries, success, error, data) ==
    [route |-> "keyed " \o q.resource, req |-> Some(q), status |-> status,
     queries |-> queries, failAt |-> 0, success |-> success, error |-> error, data |-> data]

\* the method threw and the route answered 500 with the message
KeyedFailure(q, message) == KeyedResponse(q, 500, 1, FALSE, message, Null)

\* router.get('/schedule/:year?') with getSeasonSchedule
KeyedSchedule(year) ==
    LET q == KeyedRequest("schedule", <<IF year = Null THEN ThisYearText ELSE year[1]>>)
        cached == KeyedGet(CacheKey(q))
    IN  /\ IF cached # Null
           THEN /\ resp' = KeyedResponse(q, 200, 0, TRUE, "", cached)
                /\ cache' = cache
           ELSE IF PgInteger(q.params[1]) = Null
           THEN /\ resp' = KeyedFailure(q, "Failed to fetch season schedule")
                /\ cache' = cache
           ELSE LET schedule == KeyedEntry(q, {r.round_number : r \in
                                    {s \in f1_sessions : s.year = PgInteger(q.params[1])[1]
                                                         /\ s.session_type = "Race"}})
                IN  /\ cache' = KeyedSetex(CacheKey(q), schedule)
                    /\ resp' = KeyedResponse(q, 200, 1, TRUE, "", Some(schedule))
        /\ UNCHANGED <<chat, hook, storeVars, clock, calls, hubVars, stintVars, fixVars>>

\* router.get('/session/:year/:round/:session') with getSessionData
KeyedSession(year, round, session) ==
    LET q == KeyedRequest("session", <<year, round, session>>)
        cached == KeyedGet(CacheKey(q))
    IN  /\ IF cached # Null
           THEN /\ resp' = KeyedResponse(q, 200, 0, TRUE, "", cached)
                /\ cache' = cache
           ELSE IF PgInteger(year) = Null \/ PgInteger(round) = Null
           THEN /\ resp' = KeyedFailure(q, "Failed to fetch session data")
                /\ cache' = cache
           ELSE LET rows == SessionQuery(PgInteger(year)[1], PgInteger(round)[1], session)
                IN  IF rows = {}
                    THEN /\ resp' = KeyedResponse(q, 200, 1, TRUE, "", Null)
                         /\ cache' = cache
                    ELSE LET sessionData == KeyedEntry(q, CHOOSE r \in rows : TRUE)
                         IN  /\ cache' = KeyedSetex(CacheKey(q), sessionData)
                             /\ resp' = KeyedResponse(q, 200, 7, TRUE, "", Some(sessionData))
        /\ UNCHANGED <<chat, hook, storeVars, clock, calls, hubVars, stintVars, fixVars>>

\* router.get('/live/:sessionKey') with getLiveData
KeyedLive(sessionKey) ==
    LET q == KeyedRequest("live", <<sessionKey>>)
        cached == KeyedGet(CacheKey(q))
    IN  /\ IF cached # Null
           THEN /\ resp' = KeyedResponse(q, 200, 0, TRUE, "", cached)
                /\ cache' = cache
           ELSE LET liveData == KeyedEntry(q, LiveData(sessionKey))
                IN  /\ cache' = KeyedSetex(CacheKey(q), liveData)
                    /\ resp' = KeyedResponse(q, 200, 0, TRUE, "", Some(liveData))
        /\ UNCHANGED <<chat, hook, storeVars, clock, calls, hubVars, stintVars, fixVars>>

InitKeys ==
    /\ f1_sessions \in KeyedSessionTables
    /\ lap_times = {}
    /\ telemetry_data = {}
    /\ request = Request(Some(2024), Some(1), "Race")
    /\ resp = NoResponse
    /\ clock = 0
    /\ cache = <<>>
    /\ calls = <<>>
    /\ connected = {}
    /\ closed = {}
    /\ rooms = <<>>
    /\ toServer = <<>>
    /\ toClient = <<>>
    /\ component = <<>>
    /\ received = <<>>
    /\ delivered = <<>>
    /\ joined = <<>>
    /\ published = <<>>
    /\ driverLaps = <<>>
    /\ strategyData = <<>>
    /\ constraints = {}
    /\ fixPc = "off"
    /\ chat = <<>>
    /\ hook = <<>>

NextKeys ==
    \/ \E year \in {Null} \cup {Some(y) : y \in YearTexts} : KeyedSchedule(year)
    \/ \E year \in YearTexts, round \in RoundTexts, session \in KindTexts :
          KeyedSession(year, round, session)
    \/ \E sessionKey \in LiveTexts : KeyedLive(sessionKey)

SpecKeys == InitKeys /\ [][NextKeys]_vars

\* the last response carries an entry, fresh or out of the cache
ServedEntry == resp.req # Null /\ resp.success /\ resp.data # Null

\* C30: the cache key is an injective function of the request parameters:
\* two requests that differ in resource, year, round, kind or session key
\* never share a key, so the entry a request is served was produced for the
\* same parameters.
C30_KeysInjective ==
    ServedEntry => resp.data[1].producedFor = resp.req[1]

====
